---- MODULE Spec2Model ----
(***************************************************************************)
(* VoxAi: the authentication and session-lifecycle subsystem.              *)
(*                                                                         *)
(* One browser client (AuthContext + the axios instance of services/api)   *)
(* talks to the Express backend (routes/auth.js and the protected routes). *)
(* Other clients of the backend appear as requests of origin "other".      *)
(* Each action is one run-to-completion piece of JavaScript: an event      *)
(* handler up to its first await, or the continuation after an await.      *)
(***************************************************************************)
EXTENDS Integers, Sequences, FiniteSets, TLC

\* ------------------------------------------------------------------ bounds
MaxReq == 2        \* HTTP requests sent in one behaviour
MaxTicks == 1      \* clock advances in one behaviour

\* --------------------------------------------------------- program constants
TokenTTL == 604800           \* seconds in "7d"
MsPerSec == 1000             \* Date.now() is in milliseconds
SaltRounds == 10             \* bcrypt.genSalt(10)

Emails == {"a@x.com", "b@x.com"}
FormEmails == {"a@x.com"}         \* what the user of this browser types
Passwords == {"secret1", "hunter2"}
RegisterPasswords == {"secret1"}  \* what the user of this browser registers with
Names == {"Alice"}
Salts == {"s1"}
JWT_SECRET == "server-secret"

ROUTE_LOGIN == "/login"
ROUTE_REGISTER == "/register"
ROUTE_SCHEMES == "/schemes"
ROUTE_CHAT == "/chat"
Routes == {ROUTE_LOGIN, ROUTE_REGISTER, ROUTE_SCHEMES}
ProtectedRoutes == {ROUTE_SCHEMES, ROUTE_CHAT}

\* Clock advances: one whole token lifetime, or half a second more.
TickSteps == {TokenTTL * MsPerSec, TokenTTL * MsPerSec + 500}

\* ----------------------------------------------------------------- options
\* A value that may be absent (null / undefined / no such key).
None == <<>>
Some(x) == <<x>>
IsSome(o) == o # <<>>
Get(o) == o[1]

VARIABLES
    storage,        \* localStorage: [token, user], each absent or a string
    user,           \* AuthContext user state (null or the projection)
    loading,        \* AuthContext loading state
    last,           \* the last operation of the client and its outcome, until
                    \* the page that saw it goes away
    path,           \* window.location.pathname
    pc,             \* "boot": mounted, initializeAuth not yet run; "ready"
    reloadPending,  \* window.location.href was assigned, page not yet replaced
    chat,           \* the Chat page's state (messages, input, loading) while
                    \* the page is mounted
    reqs,           \* HTTP requests in flight or answered and not yet consumed
    sent,           \* requests sent so far
    users,          \* the User collection
    schemes,        \* the Scheme collection
    now,            \* wall clock, milliseconds
    ticks           \* clock advances so far

vars == <<storage, user, loading, last, path, pc, reloadPending, chat,
          reqs, sent, users, schemes, now, ticks>>

clientVars == <<storage, user, loading, last, path, pc, reloadPending, chat>>

\* ------------------------------------------------------------ pure helpers

\* bcrypt.hash(password, salt): one-way, salt kept in the hash.
BcryptHash(pw, salt) == [salt |-> salt, digest |-> <<"bcrypt", SaltRounds, salt, pw>>]

\* bcrypt.compare(password, hash): re-hash with the hash's own salt.
BcryptCompare(pw, h) == BcryptHash(pw, h.salt) = h

\* A jwt.sign called with expiresIn: 7, which is seven seconds.
JwtSign_SevenSeconds(id, secret, t) ==
    LET iat == t \div MsPerSec
    IN  [sub |-> id, iat |-> iat, exp |-> iat + 7, sig |-> secret]

\* jwt.sign({ id }, secret, { expiresIn: "7d" }): iat is the time in whole seconds.
JwtSign(id, secret, t) ==
    LET iat == t \div MsPerSec
    IN  [sub |-> id, iat |-> iat, exp |-> iat + TokenTTL, sig |-> secret]

\* jwtDecode(token): the payload, read without verifying the signature; it
\* has an exp property only if the token embeds an expiry.
JwtDecode(tok) ==
    IF "exp" \in DOMAIN tok
    THEN [id |-> tok.sub, iat |-> tok.iat, exp |-> tok.exp]
    ELSE [id |-> tok.sub, iat |-> tok.iat]

\* The keys a user object may have, in the order they are written.
JsonKeys == <<"id", "name", "email", "password">>

\* JSON.stringify of an object: the text, as the key/value pairs of every
\* property the object has.
JsonStringify(u) ==
    LET ks == SelectSeq(JsonKeys, LAMBDA k : k \in DOMAIN u)
    IN  [i \in 1..Len(ks) |-> <<ks[i], u[ks[i]]>>]

JsonField(s, k) == (CHOOSE i \in 1..Len(s) : s[i][1] = k)

\* JSON.parse throws a SyntaxError on a text that is not JSON: here, one
\* whose pieces are not key/value pairs.
JsonParseThrows(s) == \E i \in 1..Len(s) : Len(s[i]) # 2

\* JSON.parse of that text: an object with the properties the text names.
JsonParse(s) ==
    [k \in {s[i][1] : i \in 1..Len(s)} |-> s[JsonField(s, k)][2]]

\* A login that answers with the whole User document.
UserProjection_WholeDocument(u) == u

\* The user object of a login response: { id, name, email }.
UserProjection(u) == [id |-> u.id, name |-> u.name, email |-> u.email]

\* Mongo _id of the n-th document created.
ObjectId(n) == IF n = 1 THEN "u1" ELSE IF n = 2 THEN "u2" ELSE IF n = 3 THEN "u3" ELSE "u4"

EmptyStorage == [token |-> None, user |-> None]

Outcome(op, success, message) == [op |-> op, success |-> success, message |-> message]

NoOutcome == Outcome("none", FALSE, "")

\* A formatErrorMessage that reads only data.message, which these routes never send.
formatErrorMessage_MessageKey(err) ==
    IF IsSome(err.response) THEN "Server error occurred"
    ELSE IF err.request THEN "Network error. Please check your connection."
    ELSE "An unexpected error occurred"

\* formatErrorMessage(error) for an axios error: err.response is the response
\* (status and data.msg) when the server answered, err.request is set when a
\* request was sent and nothing came back.
formatErrorMessage(err) ==
    IF IsSome(err.response)
    THEN IF Get(err.response).msg # "" THEN Get(err.response).msg
         ELSE "Server error occurred"
    ELSE IF err.request THEN "Network error. Please check your connection."
    ELSE "An unexpected error occurred"

\* ------------------------------------------------------------------ types
IsToken(t) ==
    /\ t.sub \in {ObjectId(n) : n \in 1..4}
    /\ t.iat \in Nat /\ t.exp \in Nat
    /\ t.sig = JWT_SECRET

TypeOK ==
    /\ storage.token # None => IsToken(Get(storage.token))
    /\ storage.user # None => Len(Get(storage.user)) = 3
    /\ user # None => Get(user).email \in Emails
    /\ loading \in BOOLEAN
    /\ path \in Routes
    /\ pc \in {"boot", "ready"}
    /\ reloadPending \in BOOLEAN
    /\ chat.mounted \in BOOLEAN /\ chat.loading \in BOOLEAN
    /\ sent \in 0..MaxReq
    /\ ticks \in 0..MaxTicks
    /\ now \in Nat
    /\ \A r \in reqs : r.id \in 1..MaxReq
    /\ \A r, q \in reqs : r.id = q.id => r = q

\* ----------------------------------------------------------------- server

ServerSteps == {"find", "hash", "create", "compare", "guard", "handle", "done"}

\* Routes registered with the auth middleware in front of the handler:
\* POST /api/schemes, POST /api/chat, GET /api/chat/history.
GuardedKinds == {"scheme", "chat", "history"}

\* Routes registered with the handler alone: GET /api/schemes, and POST
\* /api/chat as the CommonJS variant of routes/chat registers it.
OpenKinds == {"schemeList", "chatLegacy"}

FirstStep(kind) ==
    IF kind \in {"register", "login"} THEN "find"
    ELSE IF kind \in OpenKinds THEN "handle" ELSE "guard"

\* An HTTP request as the server sees it, plus the client's side of it
\* (cstate "await": a callback of the page still waits for the answer).
\* message is req.body.message of a chat request, as its characters.
NewRequest(id, kind, origin, name, email, password, tok) ==
    [id |-> id, kind |-> kind, origin |-> origin,
     name |-> name, email |-> email, password |-> password, token |-> tok,
     message |-> [type |-> "undefined", text |-> <<>>],
     spc |-> FirstStep(kind), status |-> 0, msg |-> "", body |-> None,
     hash |-> None, found |-> None,
     cstate |-> IF origin = "client" THEN "await" ELSE "gone"]

\* res.status(s).json({ msg }) / res.json(body): the handler is over.
Respond(r, status, msg, body) ==
    [r EXCEPT !.spc = "done", !.status = status, !.msg = msg, !.body = body]

\* The number a new request gets: the smallest one no request in flight has.
FreeId == CHOOSE i \in 1..MaxReq : (\A q \in reqs : q.id # i) /\ (\A j \in 1..(i-1) : \E q \in reqs : q.id = j)

Replace(r, r2) == (reqs \ {r}) \cup {r2}

\* User.findOne({ email })
FindOne(email) == {u \in users : u.email = email}

\* A register that skips the lookup's result.
RegisterExisting_Never(email) == FALSE

\* register: const existing = await User.findOne({ email }); if (existing) 400
RegisterExisting(email) == FindOne(email) # {}

\* register, lines 11-13.  storeOk = FALSE: the store call rejects.
RegisterFind(r, storeOk) ==
    /\ r \in reqs /\ r.kind = "register" /\ r.spc = "find"
    /\ reqs' = Replace(r,
          IF ~storeOk THEN Respond(r, 500, "store unavailable", None)
          ELSE IF RegisterExisting(r.email)
               THEN Respond(r, 400, "User already exists", None)
               ELSE [r EXCEPT !.spc = "hash"])
    /\ UNCHANGED <<users, schemes, sent, now, ticks>>
    /\ UNCHANGED clientVars

\* register, lines 15-16: genSalt(10) and hash.
RegisterHash(r, salt) ==
    /\ r \in reqs /\ r.kind = "register" /\ r.spc = "hash"
    /\ reqs' = Replace(r, [r EXCEPT !.spc = "create",
                                    !.hash = Some(BcryptHash(r.password, salt))])
    /\ UNCHANGED <<users, schemes, sent, now, ticks>>
    /\ UNCHANGED clientVars

\* User.create(doc) on a collection whose email field is unique: the insert
\* is rejected with a duplicate-key error when the email is already stored.
UserCreateRejects(email) == FindOne(email) # {}

NewUser(r) ==
    [id |-> ObjectId(Cardinality(users) + 1), name |-> r.name, email |-> r.email,
     password |-> Get(r.hash)]

\* User.create(doc) validates the document against the schema before the
\* insert: email is a required string, and an empty string does not count.
UserSchemaRejects(doc) == doc.email = ""

\* A register whose failed store call has written the document all the same.
RegisterCreate_WritesThenFails(r, storeOk) ==
    /\ r \in reqs /\ r.kind = "register" /\ r.spc = "create"
    /\ IF ~storeOk
       THEN /\ reqs' = Replace(r, Respond(r, 500, "store unavailable", None))
            /\ users' = IF UserCreateRejects(r.email) THEN users
                        ELSE users \cup {NewUser(r)}
       ELSE IF UserSchemaRejects(NewUser(r))
       THEN /\ reqs' = Replace(r, Respond(r, 500, "User validation failed", None))
            /\ users' = users
       ELSE IF UserCreateRejects(r.email)
       THEN /\ reqs' = Replace(r, Respond(r, 500, "E11000 duplicate key error", None))
            /\ users' = users
       ELSE /\ reqs' = Replace(r, Respond(r, 200, "User registered successfully", None))
            /\ users' = users \cup {NewUser(r)}
    /\ UNCHANGED <<schemes, sent, now, ticks>>
    /\ UNCHANGED clientVars

\* register, lines 18-22.
RegisterCreate(r, storeOk) ==
    /\ r \in reqs /\ r.kind = "register" /\ r.spc = "create"
    /\ IF ~storeOk
       THEN /\ reqs' = Replace(r, Respond(r, 500, "store unavailable", None))
            /\ users' = users
       ELSE IF UserSchemaRejects(NewUser(r))
       THEN /\ reqs' = Replace(r, Respond(r, 500, "User validation failed", None))
            /\ users' = users
       ELSE IF UserCreateRejects(r.email)
       THEN /\ reqs' = Replace(r, Respond(r, 500, "E11000 duplicate key error", None))
            /\ users' = users
       ELSE /\ reqs' = Replace(r, Respond(r, 200, "User registered successfully", None))
            /\ users' = users \cup {NewUser(r)}
    /\ UNCHANGED <<schemes, sent, now, ticks>>
    /\ UNCHANGED clientVars

\* login, lines 28-30.
LoginFind(r, storeOk) ==
    /\ r \in reqs /\ r.kind = "login" /\ r.spc = "find"
    /\ reqs' = Replace(r,
          IF ~storeOk THEN Respond(r, 500, "store unavailable", None)
          ELSE IF FindOne(r.email) = {}
               THEN Respond(r, 400, "User not found", None)
               ELSE [r EXCEPT !.spc = "compare",
                              !.found = Some(CHOOSE u \in FindOne(r.email) : TRUE)])
    /\ UNCHANGED <<users, schemes, sent, now, ticks>>
    /\ UNCHANGED clientVars

\* A login that does not look at bcrypt.compare's result.
LoginIsMatch_Always(password, u) == TRUE

\* login: const isMatch = await bcrypt.compare(password, user.password)
LoginIsMatch(password, u) == BcryptCompare(password, u.password)

\* login, line 35-36: the 200 body.
LoginBody(u, t) ==
    [token |-> JwtSign(u.id, JWT_SECRET, t), user |-> UserProjection(u)]

\* login, lines 32-36.
LoginCompare(r) ==
    /\ r \in reqs /\ r.kind = "login" /\ r.spc = "compare"
    /\ reqs' = Replace(r,
          IF ~LoginIsMatch(r.password, Get(r.found))
          THEN Respond(r, 400, "Invalid credentials", None)
          ELSE Respond(r, 200, "", Some(LoginBody(Get(r.found), now))))
    /\ UNCHANGED <<users, schemes, sent, now, ticks>>
    /\ UNCHANGED clientVars

\* The failures of the auth middleware, as the 401 body names them.
MissingToken == "No token, authorization denied"
InvalidToken == "Token is not valid"
ExpiredToken == "Token expired"

\* A protected route behind the auth middleware: the middleware answers 401
\* when no token is attached, when it does not verify against the server
\* secret, or when its expiry has passed; otherwise the handler runs.
GuardRejects(tok, t) ==
    \/ ~IsSome(tok)
    \/ Get(tok).sig # JWT_SECRET
    \/ t \div MsPerSec >= Get(tok).exp

\* A middleware that looks at the expiry before the signature.
GuardMessage_ExpiryFirst(tok, t) ==
    IF ~IsSome(tok) THEN MissingToken
    ELSE IF t \div MsPerSec >= Get(tok).exp THEN ExpiredToken
    ELSE InvalidToken

GuardMessage(tok, t) ==
    IF ~IsSome(tok) THEN MissingToken
    ELSE IF Get(tok).sig # JWT_SECRET THEN InvalidToken
    ELSE ExpiredToken

\* Scheme.create(req.body): the document stored.
NewScheme == [id |-> Cardinality(schemes) + 1, title |-> "Scholarship"]

\* router.post("/", auth, handler) of the schemes route.
Protected(r) ==
    /\ r \in reqs /\ r.kind = "scheme" /\ r.spc = "guard"
    /\ IF GuardRejects(r.token, now)
       THEN /\ reqs' = Replace(r, Respond(r, 401, GuardMessage(r.token, now), None))
            /\ schemes' = schemes
       ELSE /\ reqs' = Replace(r, Respond(r, 200, "", Some(NewScheme)))
            /\ schemes' = schemes \cup {NewScheme}
    /\ UNCHANGED <<users, sent, now, ticks>>
    /\ UNCHANGED clientVars

\* router.get("/", handler) of the schemes route: no middleware.
SchemeList(r) ==
    /\ r \in reqs /\ r.kind = "schemeList" /\ r.spc = "handle"
    /\ reqs' = Replace(r, Respond(r, 200, "", Some(schemes)))
    /\ UNCHANGED <<users, schemes, sent, now, ticks>>
    /\ UNCHANGED clientVars

\* ------------------------------------------------------------------- chat
\* A string is the sequence of its characters.

UpperCase == <<"A", "B", "C", "D", "E", "F", "G", "H", "I", "J", "K", "L", "M", "N", "O", "P", "Q", "R", "S", "T", "U", "V", "W", "X", "Y", "Z">>
LowerCase == <<"a", "b", "c", "d", "e", "f", "g", "h", "i", "j", "k", "l", "m", "n", "o", "p", "q", "r", "s", "t", "u", "v", "w", "x", "y", "z">>

\* String.prototype.toLowerCase
ToLowerCase(str) ==
    [i \in 1..Len(str) |->
        IF \E k \in 1..Len(UpperCase) : UpperCase[k] = str[i]
        THEN LowerCase[CHOOSE k \in 1..Len(UpperCase) : UpperCase[k] = str[i]]
        ELSE str[i]]

\* String.prototype.trim
Trim(str) ==
    LET inked == {i \in 1..Len(str) : str[i] # " "}
    IN  IF inked = {} THEN <<>>
        ELSE SubSeq(str, CHOOSE i \in inked : \A j \in inked : i <= j,
                         CHOOSE i \in inked : \A j \in inked : i >= j)

\* String.prototype.includes
Includes(str, kw) ==
    \E i \in 1..(Len(str) - Len(kw) + 1) : SubSeq(str, i, i + Len(kw) - 1) = kw

\* String.prototype.startsWith
StartsWith(str, kw) == Len(str) >= Len(kw) /\ SubSeq(str, 1, Len(kw)) = kw

SchemeKeywords ==
    {<<"s", "c", "h", "e", "m", "e">>,
     <<"g", "o", "v", "e", "r", "n", "m", "e", "n", "t">>,
     <<"s", "c", "h", "e", "m", "e", "s">>}
ScholarshipKeywords ==
    {<<"s", "c", "h", "o", "l", "a", "r", "s", "h", "i", "p">>,
     <<"s", "c", "h", "o", "l", "a", "r", "s", "h", "i", "p", "s">>,
     <<"f", "i", "n", "a", "n", "c", "i", "a", "l", " ", "a", "i", "d">>}
JobKeywords ==
    {<<"j", "o", "b">>,
     <<"j", "o", "b", "s">>,
     <<"c", "a", "r", "e", "e", "r">>,
     <<"e", "m", "p", "l", "o", "y", "m", "e", "n", "t">>}
EducationKeywords ==
    {<<"c", "o", "u", "r", "s", "e">>,
     <<"e", "d", "u", "c", "a", "t", "i", "o", "n">>,
     <<"l", "e", "a", "r", "n">>,
     <<"s", "k", "i", "l", "l">>}
GreetingKeywords ==
    {<<"h", "e", "l", "l", "o">>,
     <<"h", "i">>,
     <<"h", "e", "y">>}
HelpKeywords ==
    {<<"h", "e", "l", "p">>,
     <<"w", "h", "a", "t", " ", "c", "a", "n", " ", "y", "o", "u", " ", "d", "o">>,
     <<"c", "a", "p", "a", "b", "i", "l", "i", "t", "i", "e", "s">>}

IncludesAny(str, kws) == \E kw \in kws : Includes(str, kw)

\* A chain that tests the greeting keywords before the topics.
ChatCategory_GreetingFirst(userMessage) ==
    IF IncludesAny(userMessage, GreetingKeywords)
       \/ StartsWith(userMessage, <<"h", "i", "i">>) THEN "greeting"
    ELSE IF IncludesAny(userMessage, SchemeKeywords) THEN "schemes"
    ELSE IF IncludesAny(userMessage, ScholarshipKeywords) THEN "scholarships"
    ELSE IF IncludesAny(userMessage, JobKeywords) THEN "jobs"
    ELSE IF IncludesAny(userMessage, EducationKeywords) THEN "education"
    ELSE IF IncludesAny(userMessage, HelpKeywords) THEN "help"
    ELSE "default"

\* POST /api/chat: the chain of else-ifs on userMessage.
ChatCategory(userMessage) ==
    IF IncludesAny(userMessage, SchemeKeywords) THEN "schemes"
    ELSE IF IncludesAny(userMessage, ScholarshipKeywords) THEN "scholarships"
    ELSE IF IncludesAny(userMessage, JobKeywords) THEN "jobs"
    ELSE IF IncludesAny(userMessage, EducationKeywords) THEN "education"
    ELSE IF IncludesAny(userMessage, GreetingKeywords)
            \/ StartsWith(userMessage, <<"h", "i", "i">>) THEN "greeting"
    ELSE IF IncludesAny(userMessage, HelpKeywords) THEN "help"
    ELSE "default"

\* The reply of each category, by its opening words.
ChatResponse(category) ==
    CASE category = "schemes" -> "I can help you find information about government schemes!"
      [] category = "scholarships" -> "I can help you find scholarship opportunities!"
      [] category = "jobs" -> "I can assist you with job opportunities and career guidance!"
      [] category = "education" -> "I can help you find educational resources and skill development courses!"
      [] category = "greeting" -> "Hello! I'm VoxAi, your AI-powered assistant."
      [] category = "help" -> "I'm VoxAi, an AI-powered information assistant."
      [] OTHER -> "Thank you for your query!"

\* req.body.message: its JavaScript type and, for a string, its characters.
Message(type, text) == [type |-> type, text |-> text]
NoMessage == Message("undefined", <<>>)

\* POST /api/chat: !message || typeof message !== "string" || message.trim().length === 0
MessageRejected(m) ==
    m.type # "string" \/ Len(m.text) = 0 \/ Len(Trim(m.text)) = 0

\* parseInt(req.query.limit) || 50, no limit given.
HistoryLimit == 50

\* router.post("/", auth, handler) of the chat route.
Chat(r) ==
    /\ r \in reqs /\ r.kind = "chat" /\ r.spc = "guard"
    /\ reqs' = Replace(r,
          IF GuardRejects(r.token, now)
          THEN Respond(r, 401, GuardMessage(r.token, now), None)
          ELSE IF MessageRejected(r.message)
          THEN Respond(r, 400, "Message is required and must be a non-empty string", None)
          ELSE Respond(r, 200, "",
                  Some([message |-> ChatResponse(ChatCategory(ToLowerCase(Trim(r.message.text)))),
                        timestamp |-> now,
                        user |-> Get(r.token).sub])))
    /\ UNCHANGED <<users, schemes, sent, now, ticks>>
    /\ UNCHANGED clientVars

\* router.get("/history", auth, handler) of the chat route.
ChatHistory(r) ==
    /\ r \in reqs /\ r.kind = "history" /\ r.spc = "guard"
    /\ reqs' = Replace(r,
          IF GuardRejects(r.token, now)
          THEN Respond(r, 401, GuardMessage(r.token, now), None)
          ELSE Respond(r, 200, "", Some([messages |-> <<>>, limit |-> HistoryLimit])))
    /\ UNCHANGED <<users, schemes, sent, now, ticks>>
    /\ UNCHANGED clientVars

\* if (!message): undefined and the empty string are falsy.
LegacyMessageRejected(m) ==
    m.type = "undefined" \/ (m.type = "string" /\ Len(m.text) = 0)

\* router.post('/', handler) of the CommonJS chat route: no middleware; the
\* reply is the completion the OpenAI API returns (aiOk = FALSE: the call fails).
ChatLegacy(r, aiOk) ==
    /\ r \in reqs /\ r.kind = "chatLegacy" /\ r.spc = "handle"
    /\ reqs' = Replace(r,
          IF LegacyMessageRejected(r.message)
          THEN Respond(r, 400, "Message is required", None)
          ELSE IF ~aiOk THEN Respond(r, 500, "AI error", None)
          ELSE Respond(r, 200, "", Some([reply |-> "completion"])))
    /\ UNCHANGED <<users, schemes, sent, now, ticks>>
    /\ UNCHANGED clientVars

\* Tokens a caller may attach: one the server issued at time 0, the same
\* payload signed with another secret, the issued one with its last character
\* missing, and a text that is no JWT at all.
ValidToken == JwtSign(ObjectId(1), JWT_SECRET, 0)
ForgedToken == JwtSign(ObjectId(1), "other-secret", 0)
TruncatedToken == [ValidToken EXCEPT !.sig = "server-secre"]
MalformedToken == [sub |-> "", iat |-> 0, exp |-> 0, sig |-> ""]

\* A token the server secret signs but that embeds no expiry.
NoExpToken == [sub |-> ObjectId(1), iat |-> 0, sig |-> JWT_SECRET]

GuardTokens ==
    {None, Some(ValidToken), Some(ForgedToken), Some(TruncatedToken), Some(MalformedToken)}

JobsMessage == Message("string", <<" ", "J", "o", "b", "s", " ">>)
BlankMessage == Message("string", <<" ", " ">>)

\* Messages sent to POST /api/chat: none, a number, blanks, and texts that
\* name no topic, one topic, or several.
NumberMessage == Message("number", <<>>)
EmptyMessage == Message("string", <<>>)
JobSchemeMessage ==
    Message("string", <<"J", "o", "b", " ", "s", "c", "h", "e", "m", "e">>)
ScholarshipMessage ==
    Message("string", <<"s", "c", "h", "o", "l", "a", "r", "s", "h", "i", "p">>)
CareerCourseMessage ==
    Message("string", <<"c", "o", "u", "r", "s", "e", " ", "C", "A", "R", "E", "E", "R">>)
LearnMessage == Message("string", <<"L", "e", "a", "r", "n">>)
ThisMessage == Message("string", <<" ", "t", "h", "i", "s">>)
HelpHeyMessage == Message("string", <<"h", "e", "l", "p", " ", "H", "e", "y">>)
HelpMessage == Message("string", <<"H", "E", "L", "P">>)
OtherMessage == Message("string", <<"x", " ", "y">>)

ChatMessages ==
    {NoMessage, NumberMessage, EmptyMessage, BlankMessage, JobsMessage,
     JobSchemeMessage, ScholarshipMessage, CareerCourseMessage, LearnMessage,
     ThisMessage, HelpHeyMessage, HelpMessage, OtherMessage}

\* The calls other clients make to the routes outside auth.js:
\* <<route, x-auth-token, body.message>>.
GuardCalls ==
    {<<"scheme", tok, NoMessage>> : tok \in GuardTokens}
    \cup {<<"history", tok, NoMessage>> : tok \in {None, Some(ValidToken)}}
    \cup {<<"chat", tok, JobsMessage>> : tok \in {None, Some(ValidToken)}}
    \cup {<<"chat", Some(ValidToken), BlankMessage>>}
    \cup {<<"schemeList", tok, NoMessage>> : tok \in {None, Some(ValidToken)}}
    \cup {<<"chatLegacy", None, m>> : m \in {NoMessage, JobsMessage}}

\* A request of another client reaches one of those routes.
OtherCall(kind, tok, m) ==
    /\ sent < MaxReq
    /\ reqs' = reqs \cup {[NewRequest(FreeId, kind, "other", "", "", "", tok)
                             EXCEPT !.message = m]}
    /\ sent' = sent + 1
    /\ UNCHANGED <<users, schemes, now, ticks>>
    /\ UNCHANGED clientVars

\* A request of another client of the backend reaches a route of auth.js.
OtherRequest(kind, name, email, password) ==
    /\ sent < MaxReq
    /\ reqs' = reqs \cup {NewRequest(FreeId, kind, "other", name, email, password, None)}
    /\ sent' = sent + 1
    /\ UNCHANGED <<users, schemes, now, ticks>>
    /\ UNCHANGED clientVars

\* An answered request nobody waits for any more leaves the model.
Drop(r) ==
    /\ r \in reqs /\ r.spc = "done" /\ r.cstate = "gone"
    /\ reqs' = reqs \ {r}
    /\ UNCHANGED <<users, schemes, sent, now, ticks>>
    /\ UNCHANGED clientVars

\* Time passes.
Tick(d) ==
    /\ ticks < MaxTicks
    /\ now' = now + d
    /\ ticks' = ticks + 1
    /\ UNCHANGED <<reqs, users, schemes, sent>>
    /\ UNCHANGED clientVars

\* ----------------------------------------------------------------- client
\* AuthContext's error state is not a variable here: it is null after a
\* submit and a logout, and otherwise the message login()/register() returned.

BothPersisted(st) == IsSome(st.token) /\ IsSome(st.user)

\* The Chat page's state before it is mounted and after it is gone
\* (useState([]), useState(''), useState(false)).
ChatUnmounted == [mounted |-> FALSE, messages |-> <<>>, input |-> <<>>, loading |-> FALSE]

\* An expiry test with <= in place of <.
InitExpired_Inclusive(tok, t) ==
    "exp" \in DOMAIN JwtDecode(tok) /\ JwtDecode(tok).exp * MsPerSec <= t

\* An expiry test that takes a token without exp for an expired one.
InitExpired_MissingIsExpired(tok, t) ==
    "exp" \notin DOMAIN JwtDecode(tok) \/ JwtDecode(tok).exp * MsPerSec < t

\* initializeAuth: decoded.exp < Date.now() / 1000; undefined < x is false.
InitExpired(tok, t) ==
    "exp" \in DOMAIN JwtDecode(tok) /\ JwtDecode(tok).exp * MsPerSec < t

\* jwtDecode throws InvalidTokenError on a text that is not a JWT.
JwtDecodeThrows(tok) == tok = [sub |-> "", iat |-> 0, exp |-> 0, sig |-> ""]

\* An initializeAuth that takes a token it cannot decode for one without
\* expiry.
InitClears_UndecodableKept(st, t) ==
    /\ BothPersisted(st)
    /\ \/ ~JwtDecodeThrows(Get(st.token)) /\ InitExpired(Get(st.token), t)
       \/ JsonParseThrows(Get(st.user))

\* initializeAuth removes both items: the token is expired, or jwtDecode or
\* (for a token not expired) JSON.parse has thrown into catch (decodeError).
InitClears(st, t) ==
    /\ BothPersisted(st)
    /\ \/ JwtDecodeThrows(Get(st.token))
       \/ InitExpired(Get(st.token), t)
       \/ JsonParseThrows(Get(st.user))

\* initializeAuth: what its catch (decodeError) writes to the console.
InitLog(st, t) ==
    IF BothPersisted(st) /\ JwtDecodeThrows(Get(st.token))
    THEN "Token decode error: InvalidTokenError"
    ELSE IF /\ BothPersisted(st)
            /\ ~InitExpired(Get(st.token), t)
            /\ JsonParseThrows(Get(st.user))
    THEN "Token decode error: SyntaxError"
    ELSE ""

\* An initializeAuth that renews a token it accepts: it persists one with a
\* fresh expiry.
InitStorage_Renews(st, t) ==
    IF InitClears(st, t) THEN EmptyStorage
    ELSE IF BothPersisted(st)
         THEN [st EXCEPT !.token =
                  Some([Get(st.token) EXCEPT !.exp = (t \div MsPerSec) + TokenTTL])]
         ELSE st

\* initializeAuth: what it leaves in localStorage.
InitStorage(st, t) ==
    IF InitClears(st, t) THEN EmptyStorage ELSE st

\* An initializeAuth that sets the user whatever the token's expiry.
InitUser_IgnoresExpiry(u, st, t) ==
    IF BothPersisted(st) THEN Some(JsonParse(Get(st.user))) ELSE u

\* An initializeAuth that takes the session from the token when it is there.
InitUser_FromToken(u, st, t) ==
    IF IsSome(st.token) /\ ~JwtDecodeThrows(Get(st.token)) /\ ~InitExpired(Get(st.token), t)
    THEN Some([id |-> JwtDecode(Get(st.token)).id, name |-> "", email |-> ""])
    ELSE None

\* initializeAuth: the user state it leaves (u: the state before).
InitUser(u, st, t) ==
    IF BothPersisted(st)
    THEN IF InitClears(st, t) THEN None
         ELSE Some(JsonParse(Get(st.user)))
    ELSE u

\* useEffect(() => { initializeAuth() }, []): runs once after the first render.
Initialize ==
    /\ pc = "boot"
    /\ storage' = InitStorage(storage, now)
    /\ user' = InitUser(user, storage, now)
    /\ loading' = FALSE
    /\ pc' = "ready"
    /\ last' = Outcome("initialize", IsSome(user'), InitLog(storage, now))
    /\ UNCHANGED <<path, reloadPending, reqs, sent, users, schemes, now, ticks>>
    /\ UNCHANGED chat

\* A request interceptor that attaches nothing.
AttachToken_Never(st) == None

\* Request interceptor: the x-auth-token header of an outgoing request.
AttachToken(st) == st.token

\* A response interceptor that looks for 403 in place of 401.
InterceptorClears_Forbidden(status) == status = 403

\* A response interceptor that tears down on every error status.
InterceptorClears_AnyError(status) == status >= 400

\* Response interceptor: error.response?.status === 401
InterceptorClears(status) == status = 401

\* A response interceptor that removes both items on every rejected response.
InterceptStorage_AnyFailure(st, status) == EmptyStorage

\* A response interceptor that removes only the token.
InterceptStorage_TokenOnly(st, status) ==
    IF status = 401 THEN [st EXCEPT !.token = None] ELSE st

\* Response interceptor: localStorage after a rejected response.
InterceptStorage(st, status) ==
    IF InterceptorClears(status) THEN EmptyStorage ELSE st

\* Response interceptor: window.location.href = '/login' is assigned.
InterceptRedirects(p, status) ==
    InterceptorClears(status) /\ p # ROUTE_LOGIN

\* What the promise of a client request settles with: the server's answer,
\* or (lost = TRUE) an error with no response (timeout, connection lost).
Settled(r, lost) ==
    /\ r \in reqs /\ r.origin = "client" /\ r.cstate = "await"
    /\ pc = "ready"
    /\ lost \/ r.spc = "done"

StatusSeen(r, lost) == IF lost THEN 0 ELSE r.status

AxiosError(r, lost) ==
    [response |-> IF lost THEN None ELSE Some([status |-> r.status, msg |-> r.msg]),
     request |-> TRUE]

\* A request nobody waits for stays in the model only while the server can
\* still change the store on its behalf (a register not yet answered).
Abandoned(r) == r.kind = "register" /\ r.spc # "done"

Consume(r) ==
    IF Abandoned(r) THEN Replace(r, [r EXCEPT !.cstate = "gone"]) ELSE reqs \ {r}

Send(kind, name, email, password) ==
    /\ sent < MaxReq
    /\ reqs' = reqs \cup {NewRequest(FreeId, kind, "client", name, email, password,
                                     AttachToken(storage))}
    /\ sent' = sent + 1

\* login(), up to its await (Login page, handleSubmit).
LoginSubmit(email, password) ==
    /\ pc = "ready" /\ path = ROUTE_LOGIN
    /\ Send("login", "", email, password)
    /\ loading' = TRUE
    /\ last' = NoOutcome
    /\ UNCHANGED <<storage, user, path, pc, reloadPending, users, schemes, now, ticks>>
    /\ UNCHANGED chat

\* A login() that persists the user but not the token.
LoginStorage_UserOnly(body) ==
    [token |-> None, user |-> Some(JsonStringify(body.user))]

\* login(): localStorage after a 200 response.
LoginStorage(body) ==
    [token |-> Some(body.token), user |-> Some(JsonStringify(body.user))]

\* login(): setUser(response.user)
LoginUser(body) == Some(body.user)

\* login() and register(): the catch branch's return value.
Failure(op, err) == Outcome(op, FALSE, formatErrorMessage(err))

\* login(), after its await: the response interceptor, then the try or the
\* catch branch, then the Login page's navigate(ROUTES.SCHEMES) on success.
LoginSettle(r, lost) ==
    /\ Settled(r, lost) /\ r.kind = "login"
    /\ reqs' = Consume(r)
    /\ IF StatusSeen(r, lost) = 200
       THEN /\ storage' = LoginStorage(Get(r.body))
            /\ user' = LoginUser(Get(r.body))
            /\ last' = Outcome("login", TRUE, "")
            /\ path' = ROUTE_SCHEMES
            /\ UNCHANGED reloadPending
       ELSE /\ storage' = InterceptStorage(storage, StatusSeen(r, lost))
            /\ reloadPending' = (reloadPending \/ InterceptRedirects(path, StatusSeen(r, lost)))
            /\ last' = Failure("login", AxiosError(r, lost))
            /\ UNCHANGED <<user, path>>
    /\ loading' = FALSE
    /\ UNCHANGED <<pc, sent, users, schemes, now, ticks>>
    /\ chat' = IF StatusSeen(r, lost) = 200 THEN ChatUnmounted ELSE chat

\* register(), up to its await (Register page, handleSubmit).
RegisterSubmit(name, email, password) ==
    /\ pc = "ready" /\ path = ROUTE_REGISTER
    /\ Send("register", name, email, password)
    /\ loading' = TRUE
    /\ last' = NoOutcome
    /\ UNCHANGED <<storage, user, path, pc, reloadPending, users, schemes, now, ticks>>
    /\ UNCHANGED chat

\* A register() whose catch branch returns without setLoading(false).
RegisterSettle_FailureKeepsLoading(r, lost) ==
    /\ Settled(r, lost) /\ r.kind = "register"
    /\ reqs' = Consume(r)
    /\ IF StatusSeen(r, lost) = 200
       THEN /\ last' = Outcome("register", TRUE, "")
            /\ loading' = FALSE
            /\ UNCHANGED <<storage, reloadPending>>
       ELSE /\ storage' = InterceptStorage(storage, StatusSeen(r, lost))
            /\ reloadPending' = (reloadPending \/ InterceptRedirects(path, StatusSeen(r, lost)))
            /\ last' = Failure("register", AxiosError(r, lost))
            /\ UNCHANGED loading
    /\ UNCHANGED <<user, path, pc, sent, users, schemes, now, ticks>>
    /\ UNCHANGED chat

\* register(), after its await.
RegisterSettle(r, lost) ==
    /\ Settled(r, lost) /\ r.kind = "register"
    /\ reqs' = Consume(r)
    /\ IF StatusSeen(r, lost) = 200
       THEN /\ last' = Outcome("register", TRUE, "")
            /\ UNCHANGED <<storage, reloadPending>>
       ELSE /\ storage' = InterceptStorage(storage, StatusSeen(r, lost))
            /\ reloadPending' = (reloadPending \/ InterceptRedirects(path, StatusSeen(r, lost)))
            /\ last' = Failure("register", AxiosError(r, lost))
    /\ loading' = FALSE
    /\ UNCHANGED <<user, path, pc, sent, users, schemes, now, ticks>>
    /\ UNCHANGED chat

\* A ProtectedRoute that does not wait for the loading flag.
ProtectedRouteView_NoSpinner(isLoading, isAuthenticated) ==
    IF ~isAuthenticated THEN "redirect" ELSE "children"

\* ProtectedRoute: the spinner, <Navigate to={ROUTES.LOGIN} replace />, or
\* the page it wraps.
ProtectedRouteView(isLoading, isAuthenticated) ==
    IF isLoading THEN "loading"
    ELSE IF ~isAuthenticated THEN "redirect"
    ELSE "children"

\* ProtectedRoute renders its page only when not loading and authenticated.
PageRendered(p) ==
    /\ pc = "ready" /\ path = p
    /\ p \in ProtectedRoutes => ProtectedRouteView(loading, IsSome(user)) = "children"

\* The <Navigate> rendered by ProtectedRoute takes effect.
ProtectedRedirect ==
    /\ path \in ProtectedRoutes
    /\ ProtectedRouteView(loading, IsSome(user)) = "redirect"
    /\ path' = ROUTE_LOGIN
    /\ last' = NoOutcome
    /\ UNCHANGED <<storage, user, loading, pc, reloadPending,
                   reqs, sent, users, schemes, now, ticks>>
    /\ chat' = ChatUnmounted

\* Schemes page, AddSchemeModal: schemesAPI.create.
ProtectedSubmit ==
    /\ PageRendered(ROUTE_SCHEMES)
    /\ Send("scheme", "", "", "")
    /\ UNCHANGED <<users, schemes, now, ticks>>
    /\ UNCHANGED clientVars

\* The answer to a protected request: the response interceptor (which puts
\* formatErrorMessage(error) on a rejected one); the page's own state is
\* local to the page.
ProtectedSettle(r, lost) ==
    /\ Settled(r, lost) /\ r.kind = "scheme"
    /\ reqs' = Consume(r)
    /\ storage' = InterceptStorage(storage, StatusSeen(r, lost))
    /\ reloadPending' = (reloadPending \/ InterceptRedirects(path, StatusSeen(r, lost)))
    /\ last' = IF StatusSeen(r, lost) = 200 THEN Outcome("request", TRUE, "")
               ELSE Failure("request", AxiosError(r, lost))
    /\ UNCHANGED <<user, loading, path, pc, sent, users, schemes, now, ticks>>
    /\ UNCHANGED chat

\* A logout() that removes the token and leaves the user item behind.
Logout_KeepsProjection ==
    /\ pc = "ready" /\ IsSome(user)
    /\ storage' = [storage EXCEPT !.token = None]
    /\ user' = None
    /\ last' = Outcome("logout", TRUE, "")
    /\ path' = ROUTE_LOGIN
    /\ UNCHANGED <<loading, pc, reloadPending, reqs, sent, users, schemes, now, ticks>>
    /\ chat' = ChatUnmounted

\* logout(), called by Layout's handleLogout, which then navigates to /login.
\* The Logout button is rendered only while isAuthenticated.
Logout ==
    /\ pc = "ready" /\ IsSome(user)
    /\ storage' = EmptyStorage
    /\ user' = None
    /\ last' = Outcome("logout", TRUE, "")
    /\ path' = ROUTE_LOGIN
    /\ UNCHANGED <<loading, pc, reloadPending, reqs, sent, users, schemes, now, ticks>>
    /\ chat' = ChatUnmounted

\* A client-side route change (a Link, navigate(), the history buttons).
Navigate(p) ==
    /\ pc = "ready" /\ p \in Routes /\ p # path
    /\ path' = p
    /\ last' = NoOutcome
    /\ UNCHANGED <<storage, user, loading, pc, reloadPending,
                   reqs, sent, users, schemes, now, ticks>>
    /\ chat' = ChatUnmounted

\* The document is replaced: the user reloads the page, or the navigation
\* started by the response interceptor completes.  React state starts over,
\* the callbacks of the old page are gone, localStorage stays.
Reload ==
    /\ pc = "ready"
    /\ user' = None
    /\ loading' = TRUE
    /\ last' = NoOutcome
    /\ pc' = "boot"
    /\ reloadPending' = FALSE
    /\ path' = IF reloadPending THEN ROUTE_LOGIN ELSE path
    /\ reqs' = {[r EXCEPT !.cstate = "gone"] : r \in {q \in reqs : q.origin # "client" \/ Abandoned(q)}}
    /\ UNCHANGED <<storage, sent, users, schemes, now, ticks>>
    /\ chat' = ChatUnmounted

\* ---------------------------------------------------------------- Chat page
\* A text on the page is a sequence of pieces: what the user types is kept
\* character by character, a text of the assistant as one piece.

\* The welcome message of the mount effect, and the one Clear Chat leaves.
WelcomeMessage ==
    [isUser |-> FALSE, text |-> <<"Hello! I'm VoxAi, your AI-powered assistant. I can help you find information">>]
ClearedMessage ==
    [isUser |-> FALSE, text |-> <<"Hello! I'm VoxAi, your AI-powered assistant. How can I assist you today?">>]

\* handleSubmit: the text shown when the answer carries no reply, and the
\* text shown when the call has failed.
ChatFallback == "I apologize, but I couldn't process your request. Please try again."
ChatApology == "I apologize, but I encountered an error processing your request. Please try again later."

\* What the user types into the textarea.
ChatInputs == {<<>>, BlankMessage.text, JobsMessage.text, HelpMessage.text}

\* The Chat page is mounted under its ProtectedRoute; its effect puts the
\* welcome message.
ChatMount ==
    /\ PageRendered(ROUTE_CHAT) /\ ~chat.mounted
    /\ chat' = [mounted |-> TRUE, messages |-> <<WelcomeMessage>>,
                input |-> <<>>, loading |-> FALSE]
    /\ UNCHANGED <<storage, user, loading, last, path, pc, reloadPending,
                   reqs, sent, users, schemes, now, ticks>>

\* handleChange; the textarea is disabled while loading.
ChatType(text) ==
    /\ pc = "ready" /\ chat.mounted /\ ~chat.loading
    /\ text # chat.input
    /\ chat' = [chat EXCEPT !.input = text]
    /\ UNCHANGED <<storage, user, loading, last, path, pc, reloadPending,
                   reqs, sent, users, schemes, now, ticks>>

\* handleSubmit, up to its await (the form's onSubmit, or Enter through
\* handleKeyDown).
ChatSubmit ==
    /\ pc = "ready" /\ chat.mounted
    /\ IF Trim(chat.input) = <<>> \/ chat.loading
       THEN UNCHANGED <<chat, reqs, sent>>
       ELSE /\ sent < MaxReq
            /\ reqs' = reqs \cup
                  {[NewRequest(FreeId, "chat", "client", "", "", "", AttachToken(storage))
                      EXCEPT !.message = Message("string", Trim(chat.input))]}
            /\ sent' = sent + 1
            /\ chat' = [chat EXCEPT
                           !.messages = Append(@, [isUser |-> TRUE, text |-> Trim(chat.input)]),
                           !.input = <<>>,
                           !.loading = TRUE]
    /\ UNCHANGED <<storage, user, loading, last, path, pc, reloadPending,
                   users, schemes, now, ticks>>

\* handleSubmit: the text of the assistant's message.
ChatBotText(r, lost) ==
    IF StatusSeen(r, lost) = 200
    THEN IF Get(r.body).message # "" THEN Get(r.body).message ELSE ChatFallback
    ELSE ChatApology

\* A handleSubmit whose catch branch shows the error and adds no message.
ChatSettle_SilentError(r, lost) ==
    /\ Settled(r, lost) /\ r.kind = "chat"
    /\ reqs' = Consume(r)
    /\ storage' = InterceptStorage(storage, StatusSeen(r, lost))
    /\ reloadPending' = (reloadPending \/ InterceptRedirects(path, StatusSeen(r, lost)))
    /\ last' = IF StatusSeen(r, lost) = 200 THEN Outcome("request", TRUE, "")
               ELSE Failure("request", AxiosError(r, lost))
    /\ chat' = IF chat.mounted /\ StatusSeen(r, lost) = 200
               THEN [chat EXCEPT
                       !.messages = Append(@, [isUser |-> FALSE, text |-> <<ChatBotText(r, lost)>>]),
                       !.loading = FALSE]
               ELSE [chat EXCEPT !.loading = FALSE]
    /\ UNCHANGED <<user, loading, path, pc, sent, users, schemes, now, ticks>>

\* handleSubmit, after its await: the response interceptor, then the try or
\* the catch branch, then finally.
ChatSettle(r, lost) ==
    /\ Settled(r, lost) /\ r.kind = "chat"
    /\ reqs' = Consume(r)
    /\ storage' = InterceptStorage(storage, StatusSeen(r, lost))
    /\ reloadPending' = (reloadPending \/ InterceptRedirects(path, StatusSeen(r, lost)))
    /\ last' = IF StatusSeen(r, lost) = 200 THEN Outcome("request", TRUE, "")
               ELSE Failure("request", AxiosError(r, lost))
    /\ chat' = IF chat.mounted
               THEN [chat EXCEPT
                       !.messages = Append(@, [isUser |-> FALSE, text |-> <<ChatBotText(r, lost)>>]),
                       !.loading = FALSE]
               ELSE chat
    /\ UNCHANGED <<user, loading, path, pc, sent, users, schemes, now, ticks>>

\* handleClearChat, confirmed.
ChatClear ==
    /\ pc = "ready" /\ chat.mounted
    /\ chat' = [chat EXCEPT !.messages = <<ClearedMessage>>]
    /\ UNCHANGED <<storage, user, loading, last, path, pc, reloadPending,
                   reqs, sent, users, schemes, now, ticks>>

\* ------------------------------------------------------------ specification

\* The User collection outlives the server process: it starts empty, or
\* holding the user of an earlier registration.
Alice ==
    [id |-> ObjectId(1), name |-> "Alice", email |-> "a@x.com",
     password |-> BcryptHash("secret1", "s1")]

SeedStores == {{}, {Alice}}

InitServer ==
    /\ reqs = {}
    /\ sent = 0
    /\ users \in SeedStores
    /\ schemes = {}
    /\ now = 0
    /\ ticks = 0

InitClient ==
    /\ storage = EmptyStorage
    /\ user = None
    /\ loading = TRUE
    /\ last = NoOutcome
    /\ path \in Routes
    /\ pc = "boot"
    /\ reloadPending = FALSE
    /\ chat = ChatUnmounted

Init == InitClient /\ InitServer

ServerStep ==
    \/ \E r \in reqs, ok \in BOOLEAN : RegisterFind(r, ok)
    \/ \E r \in reqs, s \in Salts : RegisterHash(r, s)
    \/ \E r \in reqs, ok \in BOOLEAN : RegisterCreate(r, ok)
    \/ \E r \in reqs, ok \in BOOLEAN : LoginFind(r, ok)
    \/ \E r \in reqs : LoginCompare(r)
    \/ \E r \in reqs : Drop(r)
    \/ \E d \in TickSteps : Tick(d)

\* The browser client and the backend serving it.
Next ==
    \/ Initialize
    \/ \E e \in FormEmails, p \in Passwords : LoginSubmit(e, p)
    \/ \E r \in reqs, lost \in BOOLEAN : LoginSettle(r, lost)
    \/ \E n \in Names, e \in FormEmails, p \in RegisterPasswords : RegisterSubmit(n, e, p)
    \/ \E r \in reqs, lost \in BOOLEAN : RegisterSettle(r, lost)
    \/ ProtectedSubmit
    \/ \E r \in reqs, lost \in BOOLEAN : ProtectedSettle(r, lost)
    \/ Logout
    \/ \E p \in Routes : Navigate(p)
    \/ ProtectedRedirect
    \/ Reload
    \/ \E r \in reqs : Protected(r)
    \/ ServerStep

Spec == Init /\ [][Next]_vars

\* The operations that set the loading flag, the page changes between them
\* and the backend answering them, with what the scheduling of the page
\* guarantees: the mount effect runs initializeAuth, and a login() or
\* register() whose network call has returned or failed runs on from its
\* await.
NextLive ==
    \/ Initialize
    \/ \E e \in FormEmails, p \in Passwords : LoginSubmit(e, p)
    \/ \E r \in reqs, lost \in BOOLEAN : LoginSettle(r, lost)
    \/ \E n \in Names, e \in FormEmails, p \in RegisterPasswords : RegisterSubmit(n, e, p)
    \/ \E r \in reqs, lost \in BOOLEAN : RegisterSettle(r, lost)
    \/ Logout
    \/ \E p \in Routes : Navigate(p)
    \/ ProtectedRedirect
    \/ Reload
    \/ \E r \in reqs, ok \in BOOLEAN : RegisterFind(r, ok)
    \/ \E r \in reqs, s \in Salts : RegisterHash(r, s)
    \/ \E r \in reqs, ok \in BOOLEAN : RegisterCreate(r, ok)
    \/ \E r \in reqs, ok \in BOOLEAN : LoginFind(r, ok)
    \/ \E r \in reqs : LoginCompare(r)
    \/ \E r \in reqs : Drop(r)

SpecLive ==
    /\ Init /\ [][NextLive]_vars
    /\ WF_vars(Initialize)
    /\ WF_vars(\E r \in reqs, lost \in BOOLEAN : LoginSettle(r, lost))
    /\ WF_vars(\E r \in reqs, lost \in BOOLEAN : RegisterSettle(r, lost))

\* The backend alone, serving the requests of other clients while this
\* browser sits idle on the login page (InitIdle).
NextServer ==
    \/ \E n \in Names, e \in Emails, p \in RegisterPasswords :
          OtherRequest("register", n, e, p)
    \/ \E e \in Emails, p \in Passwords : OtherRequest("login", "", e, p)
    \/ ServerStep

InitIdle == Init /\ path = ROUTE_LOGIN

SpecServer == InitIdle /\ [][NextServer]_vars

\* What a caller of /register and /login may send for email and password:
\* a value, or the empty string.
InputEmails == {"", "c@x.com"}
InputPasswords == {"", "secret1"}

\* The routes of auth.js, called with present and with empty fields.
NextInput ==
    \/ \E n \in Names, e \in InputEmails, p \in InputPasswords :
          OtherRequest("register", n, e, p)
    \/ \E e \in InputEmails, p \in InputPasswords : OtherRequest("login", "", e, p)
    \/ ServerStep

SpecInput == InitIdle /\ [][NextInput]_vars

\* The backend's routes outside auth.js, called by other clients with and
\* without tokens.
NextGuard ==
    \/ \E c \in GuardCalls : OtherCall(c[1], c[2], c[3])
    \/ \E r \in reqs : Protected(r)
    \/ \E r \in reqs : SchemeList(r)
    \/ \E r \in reqs : Chat(r)
    \/ \E r \in reqs : ChatHistory(r)
    \/ \E r \in reqs, ok \in BOOLEAN : ChatLegacy(r, ok)
    \/ \E r \in reqs : Drop(r)
    \/ \E d \in TickSteps : Tick(d)

SpecGuard == InitIdle /\ [][NextGuard]_vars

\* A text in localStorage's user item that is not JSON.
InvalidJson == << <<"{">> >>

\* What localStorage may hold when the page loads: the items are plain
\* strings that an earlier version, another tab or the user can have
\* written, removed or damaged one by one.
BootTokens == {None, Some(ValidToken), Some(MalformedToken), Some(NoExpToken)}
BootUsers == {None, Some(JsonStringify(UserProjection(Alice))), Some(InvalidJson)}

InitBoot ==
    /\ storage \in [token : BootTokens, user : BootUsers]
    /\ user = None
    /\ loading = TRUE
    /\ last = NoOutcome
    /\ path \in Routes
    /\ pc = "boot"
    /\ reloadPending = FALSE
    /\ reqs = {}
    /\ sent = 0
    /\ users = {Alice}
    /\ schemes = {}
    /\ now = 0
    /\ ticks = 0
    /\ chat = ChatUnmounted

\* The page loading, and loading again, over such a localStorage.
NextBoot ==
    \/ Initialize
    \/ Reload
    \/ \E p \in Routes : Navigate(p)
    \/ ProtectedRedirect
    \/ Logout
    \/ \E d \in TickSteps : Tick(d)

SpecBoot == InitBoot /\ [][NextBoot]_vars

\* The calls made to the chat route: <<x-auth-token, body.message>>.
ChatCalls ==
    {<<Some(ValidToken), m>> : m \in ChatMessages} \cup {<<None, JobsMessage>>}

\* The chat route behind its guard, called by other clients.
NextChat ==
    \/ \E c \in ChatCalls : OtherCall("chat", c[1], c[2])
    \/ \E r \in reqs : Chat(r)
    \/ \E r \in reqs : Drop(r)
    \/ \E d \in TickSteps : Tick(d)

SpecChat == InitIdle /\ [][NextChat]_vars

\* The client and the backend from the moment a login() of Alice has
\* succeeded at time 0: the state LoginSettle leaves, the requests sent counted from
\* here.
InitSession ==
    /\ storage = LoginStorage(LoginBody(Alice, 0))
    /\ user = LoginUser(LoginBody(Alice, 0))
    /\ loading = FALSE
    /\ last = Outcome("login", TRUE, "")
    /\ path = ROUTE_SCHEMES
    /\ pc = "ready"
    /\ reloadPending = FALSE
    /\ reqs = {}
    /\ sent = 0
    /\ users = {Alice}
    /\ schemes = {}
    /\ now = 0
    /\ ticks = 0
    /\ chat = ChatUnmounted

\* What a client with a session does (registering set aside), and the
\* backend serving it.
NextSession ==
    \/ Initialize
    \/ \E e \in FormEmails, p \in Passwords : LoginSubmit(e, p)
    \/ \E r \in reqs, lost \in BOOLEAN : LoginSettle(r, lost)
    \/ ProtectedSubmit
    \/ \E r \in reqs, lost \in BOOLEAN : ProtectedSettle(r, lost)
    \/ Logout
    \/ \E p \in Routes : Navigate(p)
    \/ ProtectedRedirect
    \/ Reload
    \/ \E r \in reqs : Protected(r)
    \/ \E r \in reqs, ok \in BOOLEAN : LoginFind(r, ok)
    \/ \E r \in reqs : LoginCompare(r)
    \/ \E d \in TickSteps : Tick(d)

SpecSession == InitSession /\ [][NextSession]_vars

\* A logged-in user (login() of Alice answered at time 0) has opened the
\* Chat page.
InitChatPage ==
    /\ storage = LoginStorage(LoginBody(Alice, 0))
    /\ user = LoginUser(LoginBody(Alice, 0))
    /\ loading = FALSE
    /\ last = NoOutcome
    /\ path = ROUTE_CHAT
    /\ pc = "ready"
    /\ reloadPending = FALSE
    /\ chat = ChatUnmounted
    /\ reqs = {}
    /\ sent = 0
    /\ users = {Alice}
    /\ schemes = {}
    /\ now = 0
    /\ ticks = 0

\* The Chat page in use, the chat route answering it, and the page being
\* loaded again.
NextChatPage ==
    \/ ChatMount
    \/ \E text \in ChatInputs : ChatType(text)
    \/ ChatSubmit
    \/ \E r \in reqs, lost \in BOOLEAN : ChatSettle(r, lost)
    \/ ChatClear
    \/ \E r \in reqs : Chat(r)
    \/ \E d \in TickSteps : Tick(d)
    \/ Reload
    \/ Initialize
    \/ ProtectedRedirect

SpecChatPage == InitChatPage /\ [][NextChatPage]_vars

\* ------------------------------------------------------------------ claims

Authenticated == IsSome(user)
Anonymous == ~IsSome(user)

\* This step is the client consuming the answer to request r, and the answer
\* is a 401.
Observes401(r) ==
    /\ r.status = 401
    /\ \/ LoginSettle(r, FALSE)
       \/ RegisterSettle(r, FALSE)
       \/ ProtectedSettle(r, FALSE)

\* C1: in every reachable state the persisted token and the persisted user
\* projection are both present or both absent.
C1_PairedStorage == IsSome(storage.token) <=> IsSome(storage.user)

\* C1 witness: the response interceptor has just cleared a persisted session
\* (the redirect it started is still pending).
C1_Witness == reloadPending /\ storage = EmptyStorage /\ last.op = "request"

\* C2: a step that observes a 401 leaves both persisted values absent and the
\* active session cleared (at the latest by the page load it has started).
C2_TeardownOn401 ==
    [][\A r \in reqs : Observes401(r) =>
          /\ storage' = EmptyStorage
          /\ (user' = None \/ reloadPending')]_vars

\* The persisted token's expiry is in the past at time t (milliseconds).
PersistedExpired(t) ==
    /\ "exp" \in DOMAIN Get(storage.token)
    /\ Get(storage.token).exp * MsPerSec < t

\* This step is the client consuming the answer to login request r.
LoginAnswered(r, lost) == r.kind = "login" /\ LoginSettle(r, lost)

\* C3: the user state is cleared only by logout() or by the document being
\* replaced, after which initialize() restores it unless the token has
\* expired; the persisted session is removed only by logout(), by
\* initialize() on an expired token, or by an observed 401.  A failed login,
\* a register, a successful request, a non-401 error and time passing do
\* neither.
C3_LeavesOnlyBy ==
    [][/\ (Authenticated /\ user' = None) => (Logout \/ Reload)
       /\ (BothPersisted(storage) /\ ~BothPersisted(storage')) =>
             \/ Logout
             \/ Initialize /\ PersistedExpired(now)
             \/ \E r \in reqs : Observes401(r)
       /\ (Initialize /\ BothPersisted(storage) /\ ~PersistedExpired(now)) =>
             IsSome(user')]_vars

\* C3 witness: a register has failed while the session was Authenticated, and
\* the session is still Authenticated.
C3_Witness ==
    last.op = "register" /\ ~last.success /\ Authenticated /\ BothPersisted(storage)

\* C4: the user state becomes set only by a login answered 200 or by
\* initialize() finding both persisted values with a token not yet expired.
C4_EntersOnlyBy ==
    [][(Anonymous /\ IsSome(user')) =>
          \/ \E r \in reqs : r.status = 200 /\ LoginAnswered(r, FALSE)
          \/ Initialize /\ BothPersisted(storage) /\ ~PersistedExpired(now)]_vars

\* C4 witness: a register has succeeded and the session is Anonymous.
C4_Witness == last.op = "register" /\ last.success /\ Anonymous

\* C5: initialize() with both values persisted: token not expired - the user
\* state is the persisted projection, storage is unchanged, no request is
\* sent; token expired - the user state is null and storage is empty.
C5_Initialize ==
    [][(Initialize /\ BothPersisted(storage)) =>
          IF Get(storage.token).exp * MsPerSec >= now
          THEN /\ IsSome(user')
               /\ JsonStringify(Get(user')) = Get(storage.user)
               /\ storage' = storage
               /\ reqs' = reqs /\ sent' = sent
          ELSE /\ user' = None
               /\ storage' = EmptyStorage]_vars

\* C5 witness: initialize() has restored a persisted session.
C5_Witness == last = Outcome("initialize", TRUE, "") /\ BothPersisted(storage)

\* The request with r's number after this step.
After(r) == CHOOSE q \in reqs' : q.id = r.id

\* This step is the server answering request r.
Answers(r) ==
    /\ r.spc # "done"
    /\ \E q \in reqs' : q.id = r.id /\ q.spc = "done"

\* This step is the server running request r's handler to its next await.
Advances(r) == \E q \in reqs' : q.id = r.id /\ q.spc # r.spc

StoreFailed(q) == q.status = 500 /\ q.msg = "store unavailable"

\* C6: of two answered register requests with the same email, if one was
\* answered 200 the other was answered 400 (unless the store was down).
C6_ConcurrentRegister ==
    \A r1, r2 \in reqs :
        (/\ r1 # r2
         /\ r1.kind = "register" /\ r2.kind = "register"
         /\ r1.email = r2.email
         /\ r1.spc = "done" /\ r2.spc = "done"
         /\ r1.status = 200
         /\ ~StoreFailed(r2))
        => r2.status = 400

\* C7: a register whose lookup runs when a User with its email is stored is
\* answered 400 "User already exists" and leaves the collection unchanged; a
\* register whose insert runs when no such User is stored is answered 200 and
\* stores exactly one; no email is ever stored twice.
C7_SequentialRegister ==
    [][/\ \A r \in reqs :
            (r.kind = "register" /\ Advances(r) /\ ~StoreFailed(After(r))) =>
               /\ (r.spc = "find" /\ FindOne(r.email) # {}) =>
                     /\ After(r).spc = "done"
                     /\ After(r).status = 400
                     /\ After(r).msg = "User already exists"
                     /\ users' = users
               /\ (r.spc = "create" /\ FindOne(r.email) = {}) =>
                     /\ After(r).status = 200
                     /\ Cardinality({u \in users' : u.email = r.email}) = 1
                     /\ users \subseteq users'
       /\ \A e \in Emails : Cardinality({u \in users' : u.email = e}) <= 1]_vars

\* C7 witness: one register was answered 200 and a later one with the same
\* email 400, with one User stored under that email.
C7_Witness ==
    \E r1, r2 \in reqs :
        /\ r1.kind = "register" /\ r2.kind = "register" /\ r1.email = r2.email
        /\ r1.status = 200 /\ r2.status = 400
        /\ Cardinality(FindOne(r1.email)) = 1

\* The secret of request r is the one User u registered with.
SecretMatches(r, u) == u.password.digest = <<"bcrypt", SaltRounds, u.password.salt, r.password>>

\* C8: a login is answered with a token only if a User with its email is
\* stored and its secret matches that User's hash; an unknown email is
\* answered 400 "User not found", a wrong secret 400 "Invalid credentials",
\* both without a token.
C8_LoginToken ==
    [][\A r \in reqs :
          (r.kind = "login" /\ Answers(r) /\ ~StoreFailed(After(r))) =>
             /\ FindOne(r.email) = {} /\ r.spc = "find" =>
                   /\ After(r).status = 400 /\ After(r).msg = "User not found"
                   /\ After(r).body = None
             /\ (\E u \in FindOne(r.email) : ~SecretMatches(r, u)) =>
                   /\ After(r).status = 400 /\ After(r).msg = "Invalid credentials"
                   /\ After(r).body = None
             /\ IsSome(After(r).body) =>
                   /\ After(r).status = 200
                   /\ \E u \in FindOne(r.email) : SecretMatches(r, u)
             /\ After(r).status # 200 => After(r).body = None]_vars

\* C8 witness: a login with a wrong secret for a stored User was answered 400.
C8_Witness ==
    \E r \in reqs :
        /\ r.kind = "login" /\ r.status = 400 /\ r.msg = "Invalid credentials"
        /\ \E u \in FindOne(r.email) : ~SecretMatches(r, u)

\* C9: a login() that fails (400, 500 or no response) changes neither
\* persisted value nor the user state, and returns a failure carrying the
\* reason: the server's message, or the network-error message.
C9_FailedLogin ==
    [][\A r \in reqs, lost \in BOOLEAN :
          (LoginAnswered(r, lost) /\ (lost \/ r.status \in {400, 500})) =>
             /\ storage' = storage
             /\ user' = user
             /\ last'.op = "login" /\ ~last'.success
             /\ last'.message =
                   (IF lost THEN "Network error. Please check your connection."
                    ELSE r.msg)
             /\ last'.message # ""]_vars

\* C9 witness: a login with a wrong secret has failed while a session was
\* persisted and active.
C9_Witness ==
    /\ last = Outcome("login", FALSE, "Invalid credentials")
    /\ BothPersisted(storage) /\ Authenticated

\* C10: after a login answered 200 the persisted token and projection are
\* those of the response and the user state is that projection; an
\* initialize() that finds them before the token expires restores that
\* projection, the one of the User the token names.
C10_LoginPersists ==
    [][/\ \A r \in reqs :
            (r.status = 200 /\ LoginAnswered(r, FALSE)) =>
               /\ storage'.token = Some(Get(r.body).token)
               /\ IsSome(storage'.user)
               /\ JsonParse(Get(storage'.user)) = Get(r.body).user
               /\ user' = Some(Get(r.body).user)
       /\ (Initialize /\ BothPersisted(storage) /\ ~PersistedExpired(now)) =>
             /\ IsSome(user')
             /\ JsonStringify(Get(user')) = Get(storage.user)
             /\ Get(user').id = Get(storage.token).sub
             /\ Get(user') \in {UserProjection(u) : u \in users}
             /\ storage' = storage]_vars

\* C10 witness: a login has just succeeded and its session is persisted.
C10_Witness ==
    last = Outcome("login", TRUE, "") /\ BothPersisted(storage) /\ Authenticated

\* C11: logout() leaves both persisted values absent and the user state
\* null in the same step, and sends no request; an initialize() that finds
\* nothing persisted leaves the user state null and persists nothing.
C11_Logout ==
    [][/\ Logout =>
             /\ storage' = EmptyStorage
             /\ user' = None
             /\ reqs' = reqs /\ sent' = sent
       /\ (Initialize /\ storage = EmptyStorage) =>
             /\ user' = None
             /\ storage' = EmptyStorage
             /\ reqs' = reqs /\ sent' = sent]_vars

\* C11 witness: logout() has just run and the session is gone.
C11_Witness ==
    /\ last = Outcome("logout", TRUE, "")
    /\ Anonymous /\ storage = EmptyStorage /\ path = ROUTE_LOGIN

\* C12: a step that observes a 401 leaves both persisted values absent;
\* nothing but a login answered 200 persists a value afterwards, so an
\* initialize() that follows finds neither and leaves the user state null.
C12_RejectionClearsBoth ==
    [][/\ \A r \in reqs : Observes401(r) =>
             ~IsSome(storage'.token) /\ ~IsSome(storage'.user)
       /\ (storage = EmptyStorage /\ storage' # EmptyStorage) =>
             \E r \in reqs : r.status = 200 /\ LoginAnswered(r, FALSE)
       /\ (Initialize /\ storage = EmptyStorage) =>
             user' = None /\ storage' = EmptyStorage]_vars

\* C12 witness: a request was answered 401 "Token expired" and both persisted
\* values are gone.
C12_Witness ==
    /\ last = Outcome("request", FALSE, ExpiredToken)
    /\ ~IsSome(storage.token) /\ ~IsSome(storage.user)

\* The requests this step sends from the browser.
SentNow == {q \in reqs' : q.origin = "client" /\ \A r \in reqs : r.id # q.id}

\* C13: a request the client sends carries as x-auth-token the token
\* persisted at that moment, and none when none is persisted.
C13_AttachesPersistedToken ==
    [][\A q \in SentNow :
          IF IsSome(storage.token)
          THEN q.token = Some(Get(storage.token))
          ELSE q.token = None]_vars

\* C13 witness: a request in flight carries the persisted token.
C13_Witness ==
    \E r \in reqs :
        /\ r.origin = "client" /\ r.cstate = "await"
        /\ IsSome(r.token) /\ r.token = storage.token

\* The token verifies against the server secret and has not expired at t.
PassesGuard(tok, t) ==
    /\ IsSome(tok)
    /\ Get(tok).sig = JWT_SECRET
    /\ t \div MsPerSec < Get(tok).exp

\* Scheme creation, chat message (either variant of the route), chat history.
ProtectedOperations == {"scheme", "chat", "history", "chatLegacy"}

\* C14: a request for a protected operation whose token does not pass the
\* Session Guard is answered 401 with no body and stores no scheme; a
\* request listing the schemes is answered 200 whatever token it carries.
C14_GuardedHandlers ==
    [][\A r \in reqs : Answers(r) =>
          /\ (r.kind \in ProtectedOperations /\ ~PassesGuard(r.token, now)) =>
                /\ After(r).status = 401
                /\ After(r).body = None
                /\ schemes' = schemes
          /\ r.kind = "schemeList" =>
                After(r).status = 200 /\ IsSome(After(r).body)]_vars

\* C15: the Session Guard answers 401 "no token" when no token is attached,
\* 401 "not valid" when the token does not verify against the server secret
\* (forged, truncated or malformed, whatever its expiry), and 401 "expired"
\* when it verifies and its expiry is in the past; it gives no other reason.
C15_GuardClassifies ==
    [][\A r \in reqs : (r.kind \in GuardedKinds /\ Answers(r)) =>
          /\ ~IsSome(r.token) =>
                After(r).status = 401 /\ After(r).msg = MissingToken
          /\ (IsSome(r.token) /\ Get(r.token).sig # JWT_SECRET) =>
                After(r).status = 401 /\ After(r).msg = InvalidToken
          /\ (/\ IsSome(r.token) /\ Get(r.token).sig = JWT_SECRET
              /\ Get(r.token).exp * MsPerSec < now) =>
                After(r).status = 401 /\ After(r).msg = ExpiredToken
          /\ After(r).status = 401 =>
                After(r).msg \in {MissingToken, InvalidToken, ExpiredToken}]_vars

\* C15 witness: a forged token whose expiry has passed was answered 401
\* "not valid".
C15_Witness ==
    \E r \in reqs :
        /\ r.token = Some(ForgedToken) /\ ForgedToken.exp * MsPerSec < now
        /\ r.status = 401 /\ r.msg = InvalidToken

SevenDays == 7 * 24 * 60 * 60

\* C16: the token of a login answered 200 has as subject the id of the User
\* stored under the request's email, is signed with the server secret, is
\* issued at the current second and expires exactly 604800 seconds later.
C16_TokenSubjectExpiry ==
    [][\A r \in reqs :
          (r.kind = "login" /\ Answers(r) /\ After(r).status = 200) =>
             LET tok == Get(After(r).body).token
             IN  /\ \E u \in FindOne(r.email) : tok.sub = u.id
                 /\ tok.sig = JWT_SECRET
                 /\ tok.iat = now \div MsPerSec
                 /\ tok.exp = tok.iat + SevenDays
                 /\ tok.exp - tok.iat = 604800]_vars

\* C16 witness: a login was answered 200 with a token issued after time 0.
C16_Witness ==
    \E r \in reqs :
        /\ r.kind = "login" /\ r.status = 200
        /\ Get(r.body).token.iat > 0

PublicKeys == {"id", "name", "email"}

\* C17: the user object of a login response has exactly the properties id,
\* name and email, taken from the stored User, and so have the projection
\* the client persists and the one it holds; a register response has no
\* body.
C17_NoHashLeaves ==
    /\ \A r \in reqs : (r.kind = "login" /\ IsSome(r.body)) =>
          /\ DOMAIN Get(r.body) = {"token", "user"}
          /\ DOMAIN Get(r.body).user = PublicKeys
          /\ DOMAIN Get(r.body).token = {"sub", "iat", "exp", "sig"}
          /\ \E u \in users : \A k \in PublicKeys : Get(r.body).user[k] = u[k]
    /\ \A r \in reqs : r.kind = "register" => r.body = None
    /\ IsSome(storage.user) =>
          {Get(storage.user)[i][1] : i \in 1..Len(Get(storage.user))} = PublicKeys
    /\ IsSome(user) => DOMAIN Get(user) = PublicKeys

\* C17 witness: a session is persisted and active for a User whose hash is
\* stored.
C17_Witness ==
    /\ BothPersisted(storage) /\ Authenticated
    /\ \E u \in users : u.id = Get(user).id /\ u.password.salt \in Salts

\* C18: a register is answered once, with 200, 400 or 500; answered 200 it
\* adds exactly one User, the one of its name and email; answered 400 or 500
\* it leaves the collection as it was; no step removes or changes a User,
\* and no step but a register answered 200 adds one.
C18_RegisterEffect ==
    [][/\ \A r \in reqs : (r.kind = "register" /\ Answers(r)) =>
             /\ After(r).status \in {200, 400, 500}
             /\ After(r).status = 200 =>
                   /\ Cardinality(users') = Cardinality(users) + 1
                   /\ \E u \in users' \ users :
                         /\ users' = users \cup {u}
                         /\ u.email = r.email /\ u.name = r.name
             /\ After(r).status \in {400, 500} => users' = users
       /\ users \subseteq users'
       /\ users' # users =>
             \E r \in reqs : r.kind = "register" /\ Answers(r) /\ After(r).status = 200
       /\ \A r \in reqs : (r.kind = "register" /\ r.spc = "done") =>
             \A q \in reqs' : q.id = r.id =>
                 q.spc = "done" /\ q.status = r.status /\ q.msg = r.msg]_vars

\* C18 witness: a register was answered 500 for a store failure and no User
\* with its email is stored.
C18_Witness ==
    \E r \in reqs :
        /\ r.kind = "register" /\ StoreFailed(r)
        /\ FindOne(r.email) = {}

\* C19: a register whose email or password is the empty string is not
\* answered 200 and stores no User.
C19_RequiredFields ==
    [][\A r \in reqs :
          (r.kind = "register" /\ Answers(r) /\ (r.email = "" \/ r.password = "")) =>
             /\ After(r).status # 200
             /\ users' = users]_vars

\* C20: register() leaves both persisted values and the user state as they
\* were, whatever the answer; a register answered 200 carries no body, so no
\* token; an Anonymous client is Anonymous after it.
C20_RegisterKeepsSession ==
    [][/\ \A r \in reqs, lost \in BOOLEAN :
             (r.kind = "register" /\ RegisterSettle(r, lost)) =>
                /\ storage' = storage
                /\ user' = user
                /\ (~lost /\ r.status = 200) =>
                      r.body = None /\ last' = Outcome("register", TRUE, "")
       /\ \A q \in reqs' : q.kind = "register" => q.body = None]_vars

\* C20 witness: the client's register has succeeded, the User is stored, and
\* the client is Anonymous with nothing persisted.
C20_Witness ==
    /\ last = Outcome("register", TRUE, "")
    /\ Anonymous /\ storage = EmptyStorage
    /\ \E u \in users : u.email \in FormEmails

\* C21: initialize() finding only one of the two persisted values, or
\* neither, leaves the session Anonymous, whatever the one value holds.
C21_PartialIsAnonymous ==
    [][(Initialize /\ ~BothPersisted(storage)) => (user' = None /\ ~loading')]_vars

\* C21 witness: initialize() has run over a persisted token without a
\* persisted user, and the session is Anonymous.
C21_Witness ==
    /\ pc = "ready" /\ last.op = "initialize" /\ ~last.success
    /\ IsSome(storage.token) /\ ~IsSome(storage.user)

\* C22: the persisted token is never renewed: a step that persists a token
\* other than the one persisted before is a login answered 200, and the
\* token it persists is the one of that response, expiry included.
C22_TokenNeverRenewed ==
    [][(IsSome(storage'.token) /\ storage'.token # storage.token) =>
          \E r \in reqs :
             /\ r.status = 200 /\ LoginAnswered(r, FALSE)
             /\ storage'.token = Some(Get(r.body).token)]_vars

\* C22 witness: initialize() has restored a session some time after its
\* login, and the persisted token still carries the expiry issued then.
C22_Witness ==
    /\ last.op = "initialize" /\ last.success /\ now > 0
    /\ BothPersisted(storage)
    /\ Get(storage.token).iat = 0 /\ Get(storage.token).exp = TokenTTL

\* C23: initialize() finding both persisted values with a token that cannot
\* be decoded removes both and leaves the session Anonymous, as it does for
\* an expired token; and initialize() always completes: whatever is
\* persisted it can run, and it ends with loading false.
C23_UndecodableToken ==
    /\ [](pc = "boot" => ENABLED Initialize)
    /\ [][Initialize =>
             /\ ~loading' /\ pc' = "ready"
             /\ (BothPersisted(storage) /\ JwtDecodeThrows(Get(storage.token))) =>
                   (storage' = EmptyStorage /\ user' = None)
             /\ (BothPersisted(storage) /\ ~JwtDecodeThrows(Get(storage.token))
                   /\ PersistedExpired(now)) =>
                   (storage' = EmptyStorage /\ user' = None)]_vars

\* C23 witness: initialize() has caught a decode error at a time when no
\* token has expired, and has left nothing persisted.
C23_Witness ==
    /\ pc = "ready" /\ last = Outcome("initialize", FALSE, "Token decode error: InvalidTokenError")
    /\ storage = EmptyStorage /\ Anonymous /\ ~loading /\ now = 0

\* C26: initialize() finding both persisted values, a token it can decode
\* and a projection it can parse, ends Anonymous exactly when the token has
\* an expiry (seconds) strictly below the current time; a token whose
\* expiry equals the current time, and one with no expiry, are restored.
C26_ExpiryStrict ==
    [][(/\ Initialize /\ BothPersisted(storage)
        /\ ~JwtDecodeThrows(Get(storage.token))
        /\ ~JsonParseThrows(Get(storage.user))) =>
          LET tok == Get(storage.token)
              restored == IsSome(user') /\ storage' = storage
          IN  /\ (user' = None) <=>
                    ("exp" \in DOMAIN tok /\ tok.exp * MsPerSec < now)
              /\ ("exp" \in DOMAIN tok /\ tok.exp * MsPerSec = now) => restored
              /\ "exp" \notin DOMAIN tok => restored]_vars

\* C26 witness: initialize() has restored a session at the very second its
\* token expires.
C26_Witness ==
    /\ last.op = "initialize" /\ last.success /\ Authenticated
    /\ storage.token = Some(ValidToken)
    /\ ValidToken.exp * MsPerSec = now

\* initialize() has restored a session from a token that carries no expiry,
\* after the seven days of a server token.
C26_WitnessNoExpiry ==
    /\ last.op = "initialize" /\ last.success /\ Authenticated
    /\ storage.token = Some(NoExpToken) /\ now > TokenTTL * MsPerSec

\* C24: ProtectedRoute redirects to the login page only when loading is
\* false and the session Anonymous, and shows the page it wraps (whose
\* operations can then be used) only when loading is false and the session
\* Authenticated; while the page is starting and initialize() has not
\* finished, it does not redirect.
C24_ProtectedRoute ==
    /\ [](pc = "boot" => ~ENABLED ProtectedRedirect)
    /\ [][/\ ProtectedRedirect => (pc = "ready" /\ ~loading /\ Anonymous)
          /\ ProtectedSubmit => (pc = "ready" /\ ~loading /\ Authenticated)]_vars

\* C24 witness: initialize() has finished Anonymous on a protected route,
\* and ProtectedRoute renders the redirect.
C24_Witness ==
    /\ pc = "ready" /\ last.op = "initialize" /\ ~last.success
    /\ path \in ProtectedRoutes /\ ~loading /\ Anonymous
    /\ ENABLED ProtectedRedirect

\* The categories of the chat route in the order the claim fixes, and what
\* it takes for a normalised message to match one.
ChatOrder ==
    <<"schemes", "scholarships", "jobs", "education", "greeting", "help", "default">>

Matches(category, text) ==
    CASE category = "schemes" -> IncludesAny(text, SchemeKeywords)
      [] category = "scholarships" -> IncludesAny(text, ScholarshipKeywords)
      [] category = "jobs" -> IncludesAny(text, JobKeywords)
      [] category = "education" -> IncludesAny(text, EducationKeywords)
      [] category = "greeting" -> IncludesAny(text, GreetingKeywords)
      [] category = "help" -> IncludesAny(text, HelpKeywords)
      [] OTHER -> TRUE

FirstMatch(text) ==
    ChatOrder[CHOOSE i \in 1..Len(ChatOrder) :
                 /\ Matches(ChatOrder[i], text)
                 /\ \A j \in 1..(i - 1) : ~Matches(ChatOrder[j], text)]

\* The message is missing, not a string, or blank.
Unusable(m) == m.type # "string" \/ \A i \in 1..Len(m.text) : m.text[i] = " "

\* The category each sample text falls in.
ChatSamples ==
    {<<JobsMessage, "jobs">>, <<JobSchemeMessage, "schemes">>,
     <<ScholarshipMessage, "scholarships">>, <<CareerCourseMessage, "jobs">>,
     <<LearnMessage, "education">>, <<ThisMessage, "greeting">>,
     <<HelpHeyMessage, "greeting">>, <<HelpMessage, "help">>,
     <<OtherMessage, "default">>}

\* The chat requests the handler (behind its guard) has answered.
ChatAnswered == {r \in reqs : r.kind = "chat" /\ r.spc = "done" /\ r.status # 401}

\* C25: the chat handler answers a missing, non-string or blank message with
\* 400 and no reply, and any other message with one non-empty reply, that of
\* the first category (schemes, scholarships, jobs, education, greeting,
\* help, default) the trimmed, lower-cased message matches; equal messages
\* get equal replies.
C25_ChatReplies ==
    /\ \A r \in ChatAnswered :
          IF Unusable(r.message)
          THEN r.status = 400 /\ r.body = None
          ELSE /\ r.status = 200 /\ IsSome(r.body)
               /\ Get(r.body).message # ""
               /\ Get(r.body).message =
                     ChatResponse(FirstMatch(ToLowerCase(Trim(r.message.text))))
               /\ \A s \in ChatSamples :
                     r.message = s[1] => Get(r.body).message = ChatResponse(s[2])
    /\ \A r, q \in ChatAnswered :
          (r.message = q.message /\ r.status = 200 /\ q.status = 200) =>
             Get(r.body).message = Get(q.body).message

\* C25 witness: a message naming a job before a scheme has got the schemes
\* reply, and a blank one has been refused.
C25_Witness ==
    /\ \E r \in ChatAnswered :
          /\ r.message = JobSchemeMessage /\ r.status = 200
          /\ Get(r.body).message = ChatResponse("schemes")
    /\ \E r \in ChatAnswered : r.message = BlankMessage /\ r.status = 400

\* C27: in every state where the session is Authenticated both persisted
\* values are present, the moment between an intercepted 401 and the page
\* load it has started set aside.
C27_SessionWithinPersisted ==
    (Authenticated /\ ~reloadPending) => BothPersisted(storage)

\* C28: a 401 that answers a request sent with a token other than the one
\* now persisted (a later login has replaced it while the request was in
\* flight) leaves the persisted session as it is and starts no redirect.
C28_LateRejection ==
    [][\A r \in reqs :
          (/\ Observes401(r)
           /\ BothPersisted(storage)
           /\ IsSome(r.token) /\ r.token # storage.token) =>
             (storage' = storage /\ reloadPending' = reloadPending)]_vars

\* C29: whenever the loading flag is true (the page is starting, or a
\* login() or register() is under way), it becomes false later on.
C29_LoadingEnds == loading ~> ~loading

\* C29 witness: a login() has failed without an answer from the server and
\* the loading flag is false again.
C29_Witness ==
    /\ pc = "ready" /\ ~loading
    /\ last = Outcome("login", FALSE, "Network error. Please check your connection.")

\* The chat requests of the page that still await their answer, by id.
ChatInFlight(rs) ==
    {r.id : r \in {q \in rs : q.kind = "chat" /\ q.origin = "client" /\ q.cstate = "await"}}

\* The texts the assistant's message can carry: a reply of the chat route,
\* or one of the two apologies.
BotTexts ==
    {ChatResponse(ChatOrder[i]) : i \in 1..Len(ChatOrder)} \cup {ChatApology, ChatFallback}

====
